---- MODULE Spec2Model ----
(***************************************************************************)
(* State-machine model of dash/tools/export_excel.py: the export_to_excel  *)
(* tool (query guard, execution, result checks, path construction) and     *)
(* _write_excel (the ExcelWriter scope that produces the artifact).        *)
(* Strings are sequences of one-character strings.                         *)
(***************************************************************************)
EXTENDS Integers, Sequences, FiniteSets, TLC

VARIABLES
    pc,          \* position of the current export_to_excel call
    query,       \* its query argument
    title,       \* its title argument
    verdict,     \* what the query guard decided
    df,          \* the frame the execution returned
    filepath,    \* the file path the call chose
    wb,          \* the workbook _write_excel is building
    fs,          \* the filesystem: the exports directory and its files
    result,      \* what the call returned (or the exception that escaped it)
    raised,      \* the exception raised inside the call, if any
    clock,       \* datetime.now(), in seconds
    calls,       \* export calls started so far
    execCount,   \* executions of the query in the current call
    writeCount,  \* _write_excel invocations in the current call
    other,       \* a concurrent export_to_excel call of another caller
    conn,        \* the database connection of the current call
    sl           \* the current save_learning call (dash/tools/save_learning.py)

\* the variables of export_to_excel
exportVars == <<pc, query, title, verdict, df, filepath, wb, fs, result, raised,
                clock, calls, execCount, writeCount, other, conn>>

vars == <<pc, query, title, verdict, df, filepath, wb, fs, result, raised,
          clock, calls, execCount, writeCount, other, conn, sl>>

(***************************************************************************)
(* Bounds                                                                  *)
(***************************************************************************)
MaxWords == 3       \* words per generated query
MaxCalls == 2       \* export calls made one after the other
MaxClock == 1       \* clock seconds 0..MaxClock
SmallRows == 2      \* small result sets have 0..SmallRows rows
MaxCols == 2        \* result sets have 1..MaxCols columns
MaxNameParts == 2   \* words per generated column name
MaxTitleLen == 2    \* characters per generated title (after the long run, if any)
MaxDocs == 2        \* documents a knowledge search returns, 0..MaxDocs

(***************************************************************************)
(* Characters and Python str operations                                    *)
(***************************************************************************)
UpperChars == <<"A","B","C","D","E","F","G","H","I","J","K","L","M",
                "N","O","P","Q","R","S","T","U","V","W","X","Y","Z">>
LowerChars == <<"a","b","c","d","e","f","g","h","i","j","k","l","m",
                "n","o","p","q","r","s","t","u","v","w","x","y","z">>
Digits == {"0","1","2","3","4","5","6","7","8","9"}

\* characters str.strip() removes (the ones the model's inputs use)
Whitespace == {" ", "\t", "\n"}

\* the place of each capital letter in the alphabet
UpperIndex == [c \in {UpperChars[i] : i \in 1..26} |-> CHOOSE i \in 1..26 : UpperChars[i] = c]

LowerChar(c) == IF c \in DOMAIN UpperIndex THEN LowerChars[UpperIndex[c]] ELSE c

\* str.lower()
Lower(s) == [i \in 1..Len(s) |-> LowerChar(s[i])]

\* str.strip(): drop leading and trailing characters of the set
StripSet(s, cs) ==
    LET keep == {i \in 1..Len(s) : s[i] \notin cs}
    IN  IF keep = {} THEN <<>>
        ELSE LET lo == CHOOSE i \in keep : \A j \in keep : i <= j
                 hi == CHOOSE i \in keep : \A j \in keep : j <= i
             IN  SubSeq(s, lo, hi)

Strip(s) == StripSet(s, Whitespace)

\* str.startswith(p)
StartsWith(s, p) == Len(s) >= Len(p) /\ SubSeq(s, 1, Len(p)) = p

\* `sub in s`
Contains(s, sub) ==
    \E i \in 1..(Len(s) - Len(sub) + 1) : SubSeq(s, i, i + Len(sub) - 1) = sub

(***************************************************************************)
(* Query Guard: export_to_excel lines 56-63                                *)
(***************************************************************************)
kw_select == <<"s","e","l","e","c","t">>
kw_with == <<"w","i","t","h">>

dangerous == << <<"d","r","o","p">>,
                <<"d","e","l","e","t","e">>,
                <<"t","r","u","n","c","a","t","e">>,
                <<"i","n","s","e","r","t">>,
                <<"u","p","d","a","t","e">>,
                <<"a","l","t","e","r">>,
                <<"c","r","e","a","t","e">> >>

\* sql = query.strip().lower()
NormSql(q) == Lower(Strip(q))

\* variant: the words are looked for anywhere in the statement
IsReadStatement_anywhere(sql) == Contains(sql, kw_select) \/ Contains(sql, kw_with)

\* line 57: the statement begins with select or with
IsReadStatement(sql) == StartsWith(sql, kw_select) \/ StartsWith(sql, kw_with)

\* variant: raw substring containment, no delimiters
KeywordHit_substring(sql, kw) == Contains(sql, kw)

\* line 62: f" {kw} " in f" {sql} "
KeywordHit(sql, kw) == Contains(<<" ">> \o sql \o <<" ">>, <<" ">> \o kw \o <<" ">>)

\* lines 56-63: "ok", "not_select", or the first dangerous keyword found
QueryGuard(q) ==
    LET sql == NormSql(q)
        hits == {k \in 1..Len(dangerous) : KeywordHit(sql, dangerous[k])}
    IN  IF ~IsReadStatement(sql)
        THEN [ok |-> FALSE, why |-> "not_select", kw |-> <<>>]
        ELSE IF hits # {}
             THEN [ok |-> FALSE, why |-> "dangerous",
                   kw |-> dangerous[CHOOSE k \in hits : \A j \in hits : k <= j]]
             ELSE [ok |-> TRUE, why |-> "ok", kw |-> <<>>]

(***************************************************************************)
(* Inputs: query strings                                                   *)
(***************************************************************************)
\* the queries the specification names
q_select_1 == <<"S","E","L","E","C","T"," ","1">>
q_with_cte == <<" "," ","w","i","t","h"," ","x"," ","a","s"," ","(","s","e","l","e","c","t"," ","1",")"," ","s","e","l","e","c","t"," ","*"," ","f","r","o","m"," ","x">>
q_createdate == <<"s","e","l","e","c","t"," ","c","r","e","a","t","e","d","a","t","e"," ","f","r","o","m"," ","t">>
q_drop_table == <<"D","R","O","P"," ","T","A","B","L","E"," ","f","o","o">>
q_update == <<"u","p","d","a","t","e"," ","t"," ","s","e","t"," ","x","=","1">>
q_pragma == <<"p","r","a","g","m","a"," ","t","a","b","l","e","_","i","n","f","o","(","t",")">>
\* a denylisted keyword delimited by tabs and a newline
q_tab_drop == <<"S","E","L","E","C","T"," ","1","\t","D","R","O","P","\n","T","A","B","L","E"," ","t">>
\* a denylisted keyword as the last token, delimited by a space
q_last_delete == <<"s","e","l","e","c","t"," ","1",";"," ","d","e","l","e","t","e">>

ExampleQueries == {q_select_1, q_with_cte, q_createdate, q_drop_table,
                   q_update, q_pragma, q_tab_drop, q_last_delete}

FirstWords == {kw_select, <<"S","e","l","e","c","t">>, kw_with, <<"p","r","a","g","m","a">>, dangerous[5]}
Words == {dangerous[k] : k \in 1..Len(dangerous)} \cup
         {<<"D","R","O","P">>, <<"c","r","e","a","t","e","d","a","t","e">>, kw_select}
Delims == {<<" ">>, <<"\t">>}
\* whitespace around the statement: none, or a leading space and a trailing newline
Pads == {<< <<>>, <<>> >>, << <<" ">>, <<"\n">> >>}

RECURSIVE QueryBodies(_)
QueryBodies(n) ==
    IF n = 1 THEN FirstWords
    ELSE {b \o d \o w : b \in QueryBodies(n - 1), d \in Delims, w \in Words}

Queries ==
    ExampleQueries \cup
    {p[1] \o b \o p[2] : p \in Pads,
                         b \in UNION {QueryBodies(n) : n \in 1..MaxWords}}

(***************************************************************************)
(* Inputs: titles, result sets, backend and filesystem failures            *)
(***************************************************************************)
MAX_ROWS == 100000
SLUG_MAX == 60

\* title: str | None
NoTitle == [some |-> FALSE, val |-> <<>>]
SomeTitle(s) == [some |-> TRUE, val |-> s]
t_q1_report == SomeTitle(<<"Q","1"," ","R","e","v","e","n","u","e"," ","R","e","p","o","r","t","!">>)
Titles == {NoTitle, t_q1_report}

\* titles that differ only in case and punctuation
t_q1_lower == SomeTitle(<<"q","1"," ","r","e","v","e","n","u","e"," ","r","e","p","o","r","t">>)
PairTitles == {NoTitle, t_q1_report, t_q1_lower}

\* short titles over letters, digits, blanks and punctuation, and titles that
\* reach past the slug's length: a run of SLUG_MAX - 1 letters, then a short one
TitleChars == {"a", "Q", "1", " ", "!", "_"}
RECURSIVE TitleTexts(_)
TitleTexts(n) ==
    IF n = 0 THEN {<<>>}
    ELSE LET shorter == TitleTexts(n - 1)
         IN  shorter \cup {Append(x, c) : x \in {y \in shorter : Len(y) = n - 1},
                                          c \in TitleChars}
LongRun == [i \in 1..(SLUG_MAX - 1) |-> "a"]
SlugTitles ==
    {NoTitle, t_q1_report}
        \cup {SomeTitle(x) : x \in TitleTexts(MaxTitleLen)}
        \cup {SomeTitle(LongRun \o x) : x \in TitleTexts(MaxTitleLen)}

\* Python truthiness of an optional string
Truthy(t) == t.some /\ t.val # <<>>

\* str(dtype) of the columns pd.read_sql builds
dt_int64 == <<"i","n","t","6","4">>
dt_float64 == <<"f","l","o","a","t","6","4">>
dt_object == <<"o","b","j","e","c","t">>
dt_bool == <<"b","o","o","l">>
dt_datetime == <<"d","a","t","e","t","i","m","e","6","4","[","n","s","]">>
DTypes == {dt_int64, dt_float64, dt_object, dt_bool, dt_datetime}

\* a column of a frame: its name and dtype
Col(n, t) == [name |-> n, dtype |-> t]

\* the frame pd.read_sql returns: its shape, its columns, and the positions
\* <<row, column>> (0-based) that hold a null; any other position <<r, c>>
\* holds a value of its own
Frame(nr, nc, cs, ns) == [nrows |-> nr, ncols |-> nc, cols |-> cs, nulls |-> ns]
NoDf == Frame(-1, -1, <<>>, {})

\* columns c1, c2, ... of text, which no format rule matches
PlainCols(nc) == [i \in 1..nc |-> Col(<<"c", CHOOSE d \in Digits : d = ToString(i)>>, dt_object)]

RowCounts == (0..SmallRows) \cup {MAX_ROWS, MAX_ROWS + 1}
DataFrames == {Frame(nr, nc, PlainCols(nc), {}) : nr \in RowCounts, nc \in 1..MaxCols}

\* the frames of two calls that run side by side
PairFrames == {Frame(nr, nc, PlainCols(nc), {}) : nr \in 1..SmallRows, nc \in 1..MaxCols}

\* column names: words joined by underscores
NameParts == {<<"t","o","t","a","l">>, <<"p","r","i","c","e">>, <<"r","a","t","e">>,
              <<"c","o","u","n","t">>, <<"d","a","t","e">>, <<"o","r","d","e","r">>,
              <<"d","t">>, <<"n","u","m">>, <<"C","O","U","N","T">>}

RECURSIVE NamesOf(_)
NamesOf(n) ==
    IF n = 1 THEN NameParts
    ELSE {a \o <<"_">> \o b : a \in NamesOf(n - 1), b \in NameParts}

ColNames == UNION {NamesOf(n) : n \in 1..MaxNameParts}

\* one-row frames of one column, of every generated name and every dtype
FormatFrames == {Frame(1, 1, <<Col(n, t)>>, {}) : n \in ColNames, t \in DTypes}

\* the columns the specification names and a text column
n_total_price == <<"t","o","t","a","l","_","p","r","i","c","e">>
n_order_count == <<"o","r","d","e","r","_","c","o","u","n","t">>
n_name == <<"n","a","m","e">>
LayoutCols == {Col(n_total_price, dt_float64), Col(n_name, dt_object)}

\* nulls of a frame: none, one cell, or a whole column
NullChoices(nr, nc) ==
    {{}} \cup {{<<r, c>>} : r \in 0..(nr - 1), c \in 0..(nc - 1)}
         \cup {{<<r, c>> : r \in 0..(nr - 1)} : c \in 0..(nc - 1)}

\* small frames of these columns
LayoutFrames ==
    UNION {{Frame(nr, nc, cs, ns) : cs \in [1..nc -> LayoutCols], ns \in NullChoices(nr, nc)} :
           nr \in 1..SmallRows, nc \in 1..MaxCols}

\* titles of the calls whose write is followed: none, empty, and a real one
WriteTitles == Titles \cup {SomeTitle(<<>>)}

\* exceptions engine.connect / pd.read_sql can raise (sqlalchemy.exc)
Messages == {"no such table", "connection refused"}
ExecErrors == [cls : {"OperationalError", "DatabaseError", "InterfaceError"},
               msg : Messages]

\* line 69: except (OperationalError, DatabaseError)
CaughtByExecute(e) == e.cls \in {"OperationalError", "DatabaseError"}

\* queries the export calls of the full model are made with: one the guard
\* accepts and one for each way it rejects
CallQueries == {q_select_1, q_drop_table, q_pragma}

(***************************************************************************)
(* File name: export_to_excel lines 80-82                                  *)
(***************************************************************************)
\* the characters of the class [a-z0-9]
AlnumChars == Digits \cup {LowerChars[i] : i \in 1..26}
IsAlnum(c) == c \in AlnumChars

\* re.sub(r"[^a-z0-9]+", "_", s): every run of other characters becomes "_"
RECURSIVE SubNonAlnum(_)
SubNonAlnum(s) ==
    IF s = <<>> THEN <<>>
    ELSE IF IsAlnum(Head(s)) THEN <<Head(s)>> \o SubNonAlnum(Tail(s))
    ELSE IF Len(s) > 1 /\ ~IsAlnum(s[2]) THEN SubNonAlnum(Tail(s))
    ELSE <<"_">> \o SubNonAlnum(Tail(s))

s_export == <<"e","x","p","o","r","t">>

\* variant: the underscores at the ends are kept
Slug_noTrim(t) ==
    LET base == IF Truthy(t) THEN t.val ELSE s_export
        trimmed == SubNonAlnum(Lower(base))
    IN  SubSeq(trimmed, 1, IF Len(trimmed) < SLUG_MAX THEN Len(trimmed) ELSE SLUG_MAX)

\* slug = re.sub(...,(title or "export").lower()).strip("_")[:60]
Slug(t) ==
    LET base == IF Truthy(t) THEN t.val ELSE s_export
        trimmed == StripSet(SubNonAlnum(Lower(base)), {"_"})
    IN  SubSeq(trimmed, 1, IF Len(trimmed) < SLUG_MAX THEN Len(trimmed) ELSE SLUG_MAX)

\* filepath = exports_dir / f"{slug}_{ts}.xlsx", ts of one-second resolution
FilePath(t, now) == <<Slug(t), now>>
NoPath == <<>>

(***************************************************************************)
(* Format inference: _FORMAT_RULES and _detect_format, lines 14-33         *)
(***************************************************************************)
FMT_CURRENCY == "$#,##0.00"
FMT_PERCENT == "0.00%"
FMT_INTEGER == "#,##0"
FMT_DATE == "YYYY-MM-DD"
FMT_NUMBER == "#,##0.00"
NoFormat == "None"

\* a rule: the alternatives of its pattern that match anywhere (subs), the
\* alternatives anchored with $ (ends), and its format
Rule(subs, ends, fmt) == [subs |-> subs, ends |-> ends, fmt |-> fmt]

\* lines 14-19, in the order of the list
FORMAT_RULES == <<
    Rule({<<"p","r","i","c","e">>, <<"c","o","s","t">>, <<"r","e","v","e","n","u","e">>, <<"a","m","o","u","n","t">>,
          <<"t","o","t","a","l">>, <<"b","a","l","a","n","c","e">>, <<"a","c","c","t","b","a","l">>,
          <<"e","x","t","e","n","d","e","d","p","r","i","c","e">>, <<"s","u","p","p","l","y","c","o","s","t">>},
         {}, FMT_CURRENCY),
    Rule({<<"p","c","t">>, <<"p","e","r","c","e","n","t">>, <<"r","a","t","e">>,
          <<"r","a","t","i","o">>, <<"s","h","a","r","e">>}, {}, FMT_PERCENT),
    Rule({<<"c","o","u","n","t">>, <<"c","n","t">>, <<"q","t","y">>,
          <<"q","u","a","n","t","i","t","y">>, <<"n","u","m","_">>}, {}, FMT_INTEGER),
    Rule({<<"d","a","t","e">>}, {<<"_","d","t">>, <<"_","a","t">>}, FMT_DATE) >>

\* an alternative ending in $ matches at the end of the string, or right
\* before a newline that ends the string
MatchesAtEnd(s, e) ==
    \/ (Len(s) >= Len(e) /\ SubSeq(s, Len(s) - Len(e) + 1, Len(s)) = e)
    \/ (Len(s) > Len(e) /\ s[Len(s)] = "\n"
        /\ SubSeq(s, Len(s) - Len(e), Len(s) - 1) = e)

\* pattern.search(col_name) with re.I
PatternSearch(rule, name) ==
    LET s == Lower(name)
    IN  \/ \E p \in rule.subs : Contains(s, p)
        \/ \E e \in rule.ends : MatchesAtEnd(s, e)

\* variant: the last matching rule wins
MatchingRule_last(name) ==
    LET hits == {k \in 1..Len(FORMAT_RULES) : PatternSearch(FORMAT_RULES[k], name)}
    IN  IF hits = {} THEN 0 ELSE CHOOSE k \in hits : \A j \in hits : j <= k

\* lines 26-28: the first rule of the list whose pattern matches, 0 for none
MatchingRule(name) ==
    LET hits == {k \in 1..Len(FORMAT_RULES) : PatternSearch(FORMAT_RULES[k], name)}
    IN  IF hits = {} THEN 0 ELSE CHOOSE k \in hits : \A j \in hits : k <= j

\* variant: the integer check is missing
DtypeFormat_noInt(dtype) ==
    IF Contains(dtype, <<"f","l","o","a","t">>) THEN FMT_NUMBER ELSE NoFormat

\* lines 29-33: the fallback on the dtype
DtypeFormat(dtype) ==
    IF Contains(dtype, <<"f","l","o","a","t">>) THEN FMT_NUMBER
    ELSE IF Contains(dtype, <<"i","n","t">>) THEN FMT_INTEGER
    ELSE NoFormat

\* variant: the dtype is looked at before the name rules
DetectFormat_dtypeFirst(name, dtype) ==
    IF DtypeFormat(dtype) # NoFormat THEN DtypeFormat(dtype)
    ELSE IF MatchingRule(name) # 0 THEN FORMAT_RULES[MatchingRule(name)].fmt
    ELSE NoFormat

\* lines 24-33
DetectFormat(name, dtype) ==
    IF MatchingRule(name) # 0 THEN FORMAT_RULES[MatchingRule(name)].fmt
    ELSE DtypeFormat(dtype)

(***************************************************************************)
(* _write_excel: the workbook being built and the file on disk             *)
(***************************************************************************)
\* variant: the header row right under the title row
HeaderRow_underTitle(t) == IF Truthy(t) THEN 1 ELSE 0

\* row where the data headers start, and the first data row (lines 105-106)
HeaderRow(t) == IF Truthy(t) THEN 2 ELSE 0

\* variant: the data rows start on the header row
DataStart_onHeader(t) == HeaderRow(t)

\* the first data row (line 106)
DataStart(t) == HeaderRow(t) + 1

\* the in-memory workbook: which parts of _write_excel have been applied
\* (fmts: the format codes of the columns the styling loop has entered;
\* freeze, filter: the arguments of freeze_panes and autofilter)
NoWb == [open |-> FALSE, raw |-> FALSE, head |-> FALSE, cells |-> 0,
         post |-> FALSE, fmts |-> <<>>, freeze |-> <<>>, filter |-> <<>>]

\* cells the styling loop (lines 163-195) writes for a frame
TotalCells(d) == d.nrows * d.ncols

\* line 164: df[col_name] is a frame, not a column, when the name is that of
\* several columns, and has no dtype; the first such column (1-based), or 0
DupColumn(d) ==
    LET dups == {i \in 1..d.ncols :
                    \E j \in 1..d.ncols : j # i /\ d.cols[j].name = d.cols[i].name}
    IN  IF dups = {} THEN 0 ELSE CHOOSE i \in dups : \A j \in dups : i <= j

\* cells the loop can write before line 164 raises, all of them if it never does
CellLimit(d) == IF DupColumn(d) = 0 THEN TotalCells(d) ELSE (DupColumn(d) - 1) * d.nrows

\* number of cells written when the loop stops: all, or fewer when a write raises
CellStops(d) ==
    {k \in {0, 1, TotalCells(d) - 1, TotalCells(d), CellLimit(d)} : k >= 0 /\ k <= CellLimit(d)}

\* columns whose loop body (lines 164-176) has run when k cells are written:
\* the cell that raises is cell k, in column k div nrows (0-based), unless
\* the loop stopped at line 164
ColsEntered(d, k) ==
    IF k = TotalCells(d) THEN d.ncols
    ELSE IF k = CellLimit(d) THEN DupColumn(d) - 1
    ELSE (k \div d.nrows) + 1

\* variant: a column without a format of its own keeps the one found before it
ColumnFormats_carried(d, n) ==
    [i \in 1..n |->
        IF i > 1 /\ DetectFormat(d.cols[i].name, d.cols[i].dtype) = NoFormat
        THEN DetectFormat(d.cols[i - 1].name, d.cols[i - 1].dtype)
        ELSE DetectFormat(d.cols[i].name, d.cols[i].dtype)]

\* line 165, for the first n columns
ColumnFormats(d, n) == [i \in 1..n |-> DetectFormat(d.cols[i].name, d.cols[i].dtype)]

\* variant: the last filter row is taken one past the data
FilterRange_pastEnd(d, t) == <<HeaderRow(t), 0, DataStart(t) + d.nrows, d.ncols - 1>>

\* line 200: autofilter(first_row, first_col, last_row, last_col)
FilterRange(d, t) == <<HeaderRow(t), 0, HeaderRow(t) + d.nrows, d.ncols - 1>>

\* line 199: freeze_panes(row, col)
FreezeAt(t) == <<DataStart(t), 0>>

\* what a cell holds: a value of the frame, a text, the empty string, nothing
Val(r, c) == [kind |-> "value", at |-> <<r, c>>]
Text(s) == [kind |-> "text", at |-> s]
EmptyVal == [kind |-> "empty", at |-> <<>>]
Cell(v, style, fmt) == [value |-> v, style |-> style, fmt |-> fmt]
Blank == Cell([kind |-> "none", at |-> <<>>], "none", NoFormat)

\* variant: the stripe follows the parity of the sheet row
IsStripe_sheetRow(t, r) == (DataStart(t) + r) % 2 = 1

\* line 188: is_stripe = row_idx % 2 == 1
IsStripe(t, r) == r % 2 = 1

\* variant: the null check of lines 182-183 is missing
DataCell_noNullCheck(d, t, r, c, fmt) ==
    Cell(IF <<r, c>> \in d.nulls THEN Text(<<"n","a","n">>) ELSE Val(r, c),
         IF IsStripe(t, r) THEN "stripe" ELSE "plain",
         fmt)

\* lines 180-195: the cell written for row r, column c of the frame
\* (0-based), fmt being the format code of the column
DataCell(d, t, r, c, fmt) ==
    Cell(IF <<r, c>> \in d.nulls THEN EmptyVal ELSE Val(r, c),
         IF IsStripe(t, r) THEN "stripe" ELSE "plain",
         fmt)

\* the cell at sheet row rr, column cc after the writes the workbook records
\* (w.fmts holds the format code line 165 found for each column entered):
\* the styled data cells written so far (line 187: excel_row = data_start +
\* row_idx, columns first), the header cells (line 160), the title and
\* subtitle (lines 147-156, at column 0, merged over the columns), and
\* under them what df.to_excel wrote at startrow = header_row (line 109)
SheetCell(w, d, t, rr, cc) ==
    LET r == rr - DataStart(t)
        inCols == cc >= 0 /\ cc < d.ncols
    IN  IF inCols /\ r >= 0 /\ r < d.nrows /\ cc * d.nrows + r < w.cells
        THEN DataCell(d, t, r, cc, w.fmts[cc + 1])
        ELSE IF w.head /\ inCols /\ rr = HeaderRow(t)
        THEN Cell(Text(d.cols[cc + 1].name), "header", NoFormat)
        ELSE IF w.head /\ Truthy(t) /\ rr = 0 /\ cc = 0
        THEN Cell(Text(t.val), "title", NoFormat)
        ELSE IF w.head /\ Truthy(t) /\ rr = 1 /\ cc = 0
        THEN Cell(Text(<<"G","e","n","e","r","a","t","e","d">>), "subtitle", NoFormat)
        ELSE IF w.raw /\ inCols /\ rr = HeaderRow(t)
        THEN Cell(Text(d.cols[cc + 1].name), "raw", NoFormat)
        ELSE IF w.raw /\ inCols /\ r >= 0 /\ r < d.nrows
        THEN Cell(IF <<r, cc>> \in d.nulls THEN EmptyVal ELSE Val(r, cc), "raw", NoFormat)
        ELSE Blank

\* everything a successful _write_excel puts in the workbook
CompleteWb(w, d) == w.raw /\ w.head /\ w.post /\ w.cells = TotalCells(d)

\* bytes of the archive a workbook is saved as: more cells, more bytes
FileSize(w, d) == IF w.raw THEN 1 + TotalCells(d) ELSE 1

\* a file on disk: zero bytes after open, or what the workbook of call `by`
\* held when saved; each writer has a handle of its own, opened at offset 0,
\* so a save over a file another writer saved meanwhile (old, of oldLen
\* bytes) leaves the bytes past its own end in place (tail: the call they
\* are from, 0 when there are none)
EmptyFile == [saved |-> FALSE, by |-> 0, complete |-> FALSE, tail |-> 0]
SavedFile(old, oldLen, w, d, n) ==
    [saved |-> TRUE, by |-> n, complete |-> CompleteWb(w, d),
     tail |-> IF old.saved /\ oldLen > FileSize(w, d) THEN old.by ELSE 0]

\* the file is a whole artifact, as a successful _write_excel produces it
CompleteFile(f) == f.saved /\ f.complete /\ f.tail = 0

FileExists(p) == p \in DOMAIN fs.files

(***************************************************************************)
(* Results of a call                                                       *)
(***************************************************************************)
NoExc == [where |-> "none", cls |-> "", msg |-> ""]
Exc(w, c, m) == [where |-> w, cls |-> c, msg |-> m]

NoVerdict == [ok |-> FALSE, why |-> "pending", kw |-> <<>>]

Res(k) == [kind |-> k, kw |-> <<>>, msg |-> "", rows |-> 0, cols |-> 0, path |-> NoPath]
NoResult == Res("none")

\* line 58 and line 63
InvalidQuery(v) == [Res("InvalidQuery") EXCEPT !.msg = v.why, !.kw = v.kw]
\* line 71: f"Error executing query: {e}"
ExecutionFailed(e) == [Res("ExecutionFailed") EXCEPT !.msg = e.msg]
\* line 74
EmptyResult == Res("EmptyResult")
\* line 76
ResultTooLarge(d) == [Res("ResultTooLarge") EXCEPT !.rows = d.nrows]
\* line 88: f"Error writing Excel file: {e}"
WriteFailed(e) == [Res("WriteFailed") EXCEPT !.msg = e.msg]
\* line 91
Success(d, p) == [Res("Success") EXCEPT !.rows = d.nrows, !.cols = d.ncols, !.path = p]
\* an exception no except clause of export_to_excel catches
Unhandled(e) == [Res("Unhandled") EXCEPT !.msg = e.msg]

Failures == {"InvalidQuery", "ExecutionFailed", "EmptyResult", "ResultTooLarge",
             "WriteFailed"}

\* the concurrent call: where it is, its arguments' outcome, what it returned
NoOther == [pc |-> "none", title |-> NoTitle, df |-> NoDf, filepath |-> NoPath,
            result |-> NoResult]
OtherCall == MaxCalls + 1

\* the workbook a _write_excel that raises nothing has built
WholeWb(d, t) ==
    [open |-> FALSE, raw |-> TRUE, head |-> TRUE, cells |-> TotalCells(d),
     post |-> TRUE, fmts |-> ColumnFormats(d, d.ncols), freeze |-> FreezeAt(t),
     filter |-> FilterRange(d, t)]

\* bytes of the file at path p, saved by one of the two calls in progress
SavedLen(p) ==
    IF ~fs.files[p].saved THEN 0
    ELSE IF fs.files[p].by = OtherCall
    THEN FileSize(WholeWb(other.df, other.title), other.df)
    ELSE FileSize(wb, df)

(***************************************************************************)
(* save_learning: inputs, normalised name, results                         *)
(***************************************************************************)
NAME_MAX == 80
MAX_ATTEMPTS == 2

\* line 47: name = title.strip().lower().replace(" ", "_")[:80]
LearningName(t) ==
    LET low == Lower(Strip(t))
        und == [i \in 1..Len(low) |-> IF low[i] = " " THEN "_" ELSE low[i]]
    IN  SubSeq(und, 1, IF Len(und) < NAME_MAX THEN Len(und) ELSE NAME_MAX)

\* lines 33, 35: `not s or not s.strip()`
IsBlank(s) == s = <<>> \/ Strip(s) = <<>>

\* titles and learnings a caller passes
LearnTitles ==
    {<<>>, <<" ">>, <<"\t"," ">>,
     <<"P","o","s"," ","i","s"," ","T","E","X","T">>,
     <<" ","A"," ","b"," ">>,
     <<"Q","1">>}
Learnings == {<<>>, <<" ","\n">>, <<"u","s","e"," ","'","1","'">>, <<"x">>}

\* a document of the knowledge base: doc.name is a string or None
Doc(n) == [some |-> TRUE, name |-> n]
NamelessDoc == [some |-> FALSE, name |-> <<>>]

\* documents a search for title t can return: the one saved under the name,
\* one whose name holds it, one with another name, one without a name
DocsFor(t) ==
    {Doc(LearningName(t)), Doc(<<"v","2","_">> \o LearningName(t) \o <<".","t","x","t">>),
     Doc(<<"o","t","h","e","r">>), NamelessDoc}

RECURSIVE ResultLists(_, _)
ResultLists(docs, n) ==
    IF n = 0 THEN {<<>>}
    ELSE LET shorter == ResultLists(docs, n - 1)
         IN  shorter \cup {Append(x, d) : x \in {y \in shorter : Len(y) = n - 1}, d \in docs}

\* variant: any returned document counts
NameFound_anyDoc(name, results) == results # <<>>

\* lines 69-71: some returned document has the name in its own
\* (`name in (doc.name or "")`)
NameFound(name, results) ==
    \E i \in 1..Len(results) :
        Contains(IF results[i].some THEN results[i].name ELSE <<>>, name)

\* the call: position, arguments, the name, the attempt of the loop of line
\* 51, calls of knowledge.insert and knowledge.search made so far and the
\* inserts among them that returned, whether the insert and the search of
\* this attempt returned, the documents of that search, the returned text
NoLearn == [pc |-> "idle", title |-> <<>>, learning |-> <<>>, name |-> <<>>,
            attempt |-> 0, inserts |-> 0, insertsOk |-> 0, searches |-> 0,
            inserted |-> FALSE, searched |-> FALSE, results |-> <<>>,
            result |-> "none", calls |-> 0]

(***************************************************************************)
(* save_learning, step by step                                             *)
(***************************************************************************)
\* a caller invokes save_learning(title, learning)
LearnCall(t, l) ==
    /\ sl.pc \in {"idle", "done"}
    /\ sl.calls < MaxCalls
    /\ sl' = [NoLearn EXCEPT !.pc = "validate", !.title = t, !.learning = l,
                             !.calls = sl.calls + 1]
    /\ UNCHANGED exportVars

\* variant: only the title is checked
Validate_noLearningCheck ==
    /\ sl.pc = "validate"
    /\ sl' = IF IsBlank(sl.title)
             THEN [sl EXCEPT !.pc = "done", !.result = "TitleRequired"]
             ELSE [sl EXCEPT !.pc = "insert", !.name = LearningName(sl.title)]
    /\ UNCHANGED exportVars

\* lines 33-50: the two arguments are checked, the name is built
Validate ==
    /\ sl.pc = "validate"
    /\ sl' = IF IsBlank(sl.title)
             THEN [sl EXCEPT !.pc = "done", !.result = "TitleRequired"]
             ELSE IF IsBlank(sl.learning)
             THEN [sl EXCEPT !.pc = "done", !.result = "LearningRequired"]
             ELSE [sl EXCEPT !.pc = "insert", !.name = LearningName(sl.title)]
    /\ UNCHANGED exportVars

\* lines 53-58: knowledge.insert returns
InsertOk ==
    /\ sl.pc = "insert"
    /\ sl' = [sl EXCEPT !.inserts = @ + 1, !.insertsOk = @ + 1, !.inserted = TRUE,
                        !.searched = FALSE, !.results = <<>>, !.pc = "search"]
    /\ UNCHANGED exportVars

\* lines 59-64: knowledge.insert raises; one more attempt, or the error
InsertRaise ==
    /\ sl.pc = "insert"
    /\ sl' = IF sl.attempt < MAX_ATTEMPTS - 1
             THEN [sl EXCEPT !.inserts = @ + 1, !.inserted = FALSE, !.searched = FALSE,
                             !.results = <<>>, !.attempt = @ + 1]
             ELSE [sl EXCEPT !.inserts = @ + 1, !.inserted = FALSE, !.searched = FALSE,
                             !.results = <<>>, !.pc = "done", !.result = "Failed"]
    /\ UNCHANGED exportVars

\* the loop of line 51 goes on after an attempt that verified nothing, and
\* line 83 follows its last round
AfterAttempt(s) ==
    IF s.attempt < MAX_ATTEMPTS - 1
    THEN [s EXCEPT !.attempt = @ + 1, !.pc = "insert"]
    ELSE [s EXCEPT !.pc = "done", !.result = "Unverified"]

\* lines 68-77: knowledge.search returns its documents
SearchReturns(results) ==
    /\ sl.pc = "search"
    /\ sl' = IF NameFound(sl.name, results)
             THEN [sl EXCEPT !.searches = @ + 1, !.searched = TRUE, !.results = results,
                             !.pc = "done", !.result = "Verified"]
             ELSE AfterAttempt([sl EXCEPT !.searches = @ + 1, !.searched = TRUE,
                                          !.results = results])
    /\ UNCHANGED exportVars

\* lines 78-81: knowledge.search raises
SearchRaise ==
    /\ sl.pc = "search"
    /\ sl' = AfterAttempt([sl EXCEPT !.searches = @ + 1])
    /\ UNCHANGED exportVars

NextLearn ==
    \/ \E t \in LearnTitles, l \in Learnings : LearnCall(t, l)
    \/ Validate
    \/ InsertOk
    \/ InsertRaise
    \/ \E r \in ResultLists(DocsFor(sl.title), MaxDocs) : SearchReturns(r)
    \/ SearchRaise

(***************************************************************************)
(* export_to_excel, step by step                                           *)
(***************************************************************************)
Init ==
    /\ pc = "idle"
    /\ query = <<>>
    /\ title = NoTitle
    /\ verdict = NoVerdict
    /\ df = NoDf
    /\ filepath = NoPath
    /\ wb = NoWb
    /\ fs = [dir |-> FALSE, files |-> <<>>]
    /\ result = NoResult
    /\ raised = NoExc
    /\ clock = 0
    /\ calls = 0
    /\ execCount = 0
    /\ writeCount = 0
    /\ conn = "none"
    /\ sl = NoLearn
    /\ other = NoOther

\* a caller invokes export_to_excel(query, title)
Call(q, t) ==
    /\ pc \in {"idle", "done"}
    /\ calls < MaxCalls
    /\ calls' = calls + 1
    /\ query' = q
    /\ title' = t
    /\ pc' = "guard"
    /\ verdict' = NoVerdict
    /\ df' = NoDf
    /\ filepath' = NoPath
    /\ wb' = NoWb
    /\ result' = NoResult
    /\ raised' = NoExc
    /\ execCount' = 0
    /\ writeCount' = 0
    /\ conn' = "none"
    /\ UNCHANGED <<sl, other, fs, clock>>

\* variant: the guard's verdict is computed but the call goes on regardless
GuardCheck_noReturn ==
    /\ pc = "guard"
    /\ verdict' = QueryGuard(query)
    /\ pc' = "execute"
    /\ UNCHANGED <<sl, conn, other, query, title, df, filepath, wb, fs, result, raised, clock, calls,
                   execCount, writeCount>>

\* lines 56-63: the query guard
GuardCheck ==
    /\ pc = "guard"
    /\ verdict' = QueryGuard(query)
    /\ IF verdict'.ok
       THEN pc' = "execute" /\ UNCHANGED result
       ELSE pc' = "done" /\ result' = InvalidQuery(verdict')
    /\ UNCHANGED <<sl, conn, other, query, title, df, filepath, wb, fs, raised, clock, calls,
                   execCount, writeCount>>

\* line 67: engine.connect() hands out a connection and the with block is
\* entered
Connect ==
    /\ pc = "execute"
    /\ conn' = "open"
    /\ pc' = "read"
    /\ UNCHANGED <<sl, query, title, verdict, df, filepath, wb, fs, result, raised, clock,
                   calls, execCount, writeCount, other>>

\* lines 67-68: the query runs and returns a frame; leaving the with block
\* gives the connection back
ExecuteOk(d) ==
    /\ pc = "read"
    /\ execCount' = execCount + 1
    /\ df' = d
    /\ conn' = "released"
    /\ pc' = "check"
    /\ UNCHANGED <<sl, other, query, title, verdict, filepath, wb, fs, result, raised, clock,
                   calls, writeCount>>

\* variant: the connection is not used as a context manager
ExecuteRaise_noRelease(e) ==
    /\ pc \in {"execute", "read"}
    /\ execCount' = execCount + 1
    /\ raised' = Exc("execute", e.cls, e.msg)
    /\ result' = IF CaughtByExecute(e) THEN ExecutionFailed(e) ELSE Unhandled(e)
    /\ pc' = "done"
    /\ UNCHANGED <<sl, conn, query, title, verdict, df, filepath, wb, fs, clock, calls,
                   writeCount, other>>

\* lines 66-71: the backend raises, in engine.connect() (no connection was
\* handed out) or in pd.read_sql (the with block is left and gives the
\* connection back); only the two listed classes are caught
ExecuteRaise(e) ==
    /\ pc \in {"execute", "read"}
    /\ execCount' = execCount + 1
    /\ raised' = Exc("execute", e.cls, e.msg)
    /\ result' = IF CaughtByExecute(e) THEN ExecutionFailed(e) ELSE Unhandled(e)
    /\ conn' = IF pc = "read" THEN "released" ELSE conn
    /\ pc' = "done"
    /\ UNCHANGED <<sl, other, query, title, verdict, df, filepath, wb, fs, clock, calls,
                   writeCount>>

\* variant: the empty check is missing
IsEmpty_never(d) == FALSE

\* df.empty: some axis has length 0
IsEmpty(d) == d.nrows = 0 \/ d.ncols = 0

\* variant: the cap is compared with >=
OverRowCap_inclusive(d) == d.nrows >= MAX_ROWS

\* line 75: len(df) > MAX_ROWS
OverRowCap(d) == d.nrows > MAX_ROWS

\* variant: the directory is made before the frame is checked
CheckResult_mkdirFirst ==
    /\ pc = "check"
    /\ fs' = [fs EXCEPT !.dir = TRUE]
    /\ IF IsEmpty(df) THEN pc' = "done" /\ result' = EmptyResult
       ELSE IF OverRowCap(df) THEN pc' = "done" /\ result' = ResultTooLarge(df)
       ELSE pc' = "path" /\ UNCHANGED result
    /\ UNCHANGED <<sl, conn, other, query, title, verdict, df, filepath, wb, raised, clock,
                   calls, execCount, writeCount>>

\* lines 73-76: the empty check, then the row cap
CheckResult ==
    /\ pc = "check"
    /\ IF IsEmpty(df) THEN pc' = "done" /\ result' = EmptyResult
       ELSE IF OverRowCap(df) THEN pc' = "done" /\ result' = ResultTooLarge(df)
       ELSE pc' = "path" /\ UNCHANGED result
    /\ UNCHANGED <<sl, conn, other, query, title, verdict, df, filepath, wb, fs, raised, clock,
                   calls, execCount, writeCount>>

\* lines 79-82: the directory is made, the path is built from slug and time
BuildPath ==
    /\ pc = "path"
    /\ fs' = [fs EXCEPT !.dir = TRUE]
    /\ filepath' = FilePath(title, clock)
    /\ pc' = "open"
    /\ UNCHANGED <<sl, conn, other, query, title, verdict, df, wb, result, raised, clock, calls,
                   execCount, writeCount>>

\* line 79: exports_dir.mkdir raises; the call is outside every try block
MkdirRaise ==
    /\ pc = "path"
    /\ ~fs.dir
    /\ raised' = Exc("mkdir", "OSError", "cannot create directory")
    /\ result' = Unhandled(raised')
    /\ pc' = "done"
    /\ UNCHANGED <<sl, conn, other, query, title, verdict, df, filepath, wb, fs, clock, calls,
                   execCount, writeCount>>

(***************************************************************************)
(* _write_excel inside the try block of lines 84-88                        *)
(***************************************************************************)
WriteStages == {"to_excel", "head", "cells", "post"}

\* what each stage raises when it fails
StageError(stage) ==
    CASE stage = "open" -> Exc("write", "OSError", "permission denied")
      [] stage = "to_excel" -> Exc("write", "ValueError", "unsupported datetime")
      [] stage = "head" -> Exc("write", "TypeError", "unsupported header type")
      [] stage = "cells" -> Exc("write", "TypeError", "unsupported cell type")
      [] stage = "dtype" -> Exc("write", "AttributeError", "no attribute dtype")
      [] stage = "post" -> Exc("write", "AttributeError", "no autofit")
      [] OTHER -> Exc("write", "OSError", "no space left on device")

\* line 108: pd.ExcelWriter(filepath) opens the target for writing, which
\* creates it (or truncates it) with zero bytes
WriterOpen ==
    /\ pc = "open"
    /\ writeCount' = writeCount + 1
    /\ wb' = [NoWb EXCEPT !.open = TRUE]
    /\ fs' = [fs EXCEPT !.files = (filepath :> EmptyFile) @@ fs.files]
    /\ pc' = "to_excel"
    /\ UNCHANGED <<sl, conn, other, query, title, verdict, df, filepath, result, raised, clock,
                   calls, execCount>>

\* line 108 raises (the file cannot be opened); lines 86-88 catch it
WriterOpenRaise ==
    /\ pc = "open"
    /\ writeCount' = writeCount + 1
    /\ raised' = StageError("open")
    /\ result' = WriteFailed(raised')
    /\ pc' = "done"
    /\ UNCHANGED <<sl, conn, other, query, title, verdict, df, filepath, wb, fs, clock, calls,
                   execCount>>

\* line 109: df.to_excel puts the raw frame in the sheet
ToExcel ==
    /\ pc = "to_excel"
    /\ wb' = [wb EXCEPT !.raw = TRUE]
    /\ pc' = "head"
    /\ UNCHANGED <<sl, conn, other, query, title, verdict, df, filepath, fs, result, raised, clock,
                   calls, execCount, writeCount>>

\* lines 111-160: formats, title rows, header cells
WriteHead ==
    /\ pc = "head"
    /\ wb' = [wb EXCEPT !.head = TRUE]
    /\ pc' = "cells"
    /\ UNCHANGED <<sl, conn, other, query, title, verdict, df, filepath, fs, result, raised, clock,
                   calls, execCount, writeCount>>

\* lines 163-195: the cell loop writes k cells, column by column; it ends
\* after all of them, or earlier when a cell write or line 164 raises
WriteCells(k) ==
    /\ pc = "cells"
    /\ k \in CellStops(df)
    /\ wb' = [wb EXCEPT !.cells = k, !.fmts = ColumnFormats(df, ColsEntered(df, k))]
    /\ IF k = TotalCells(df)
       THEN pc' = "post" /\ UNCHANGED raised
       ELSE pc' = "exit" /\ raised' = StageError(IF DupColumn(df) # 0 /\ k = CellLimit(df)
                                                  THEN "dtype" ELSE "cells")
    /\ UNCHANGED <<sl, conn, other, query, title, verdict, df, filepath, fs, result, clock, calls,
                   execCount, writeCount>>

\* lines 198-200: autofit, freeze panes, autofilter
PostLayout ==
    /\ pc = "post"
    /\ wb' = [wb EXCEPT !.post = TRUE, !.freeze = FreezeAt(title),
                         !.filter = FilterRange(df, title)]
    /\ pc' = "exit"
    /\ UNCHANGED <<sl, conn, other, query, title, verdict, df, filepath, fs, result, raised, clock,
                   calls, execCount, writeCount>>

\* a statement of lines 109-160 or 198-200 raises inside the with block
StageRaise ==
    /\ pc \in WriteStages \ {"cells"}
    /\ raised' = StageError(pc)
    /\ pc' = "exit"
    /\ UNCHANGED <<sl, conn, other, query, title, verdict, df, filepath, wb, fs, result, clock,
                   calls, execCount, writeCount>>

\* variant: the exception raised inside the with block is dropped
WriterExit_alwaysSuccess ==
    /\ pc = "exit"
    /\ wb' = [wb EXCEPT !.open = FALSE]
    /\ fs' = [fs EXCEPT !.files = (filepath :> SavedFile(fs.files[filepath], SavedLen(filepath), wb, df, calls)) @@ fs.files]
    /\ result' = Success(df, filepath)
    /\ pc' = "done"
    /\ UNCHANGED <<sl, conn, other, query, title, verdict, df, filepath, raised, clock, calls,
                   execCount, writeCount>>

\* leaving the with block of line 108 (normally or by an exception) closes
\* the writer, which saves whatever the workbook holds to the file path;
\* then lines 86-91 return
WriterExit ==
    /\ pc = "exit"
    /\ wb' = [wb EXCEPT !.open = FALSE]
    /\ fs' = [fs EXCEPT !.files = (filepath :> SavedFile(fs.files[filepath], SavedLen(filepath), wb, df, calls)) @@ fs.files]
    /\ result' = IF raised.where = "write" THEN WriteFailed(raised)
                 ELSE Success(df, filepath)
    /\ pc' = "done"
    /\ UNCHANGED <<sl, conn, other, query, title, verdict, df, filepath, raised, clock, calls,
                   execCount, writeCount>>

\* the save itself raises: the file keeps the zero bytes it was opened with;
\* the with block has been left all the same
WriterExitRaise ==
    /\ pc = "exit"
    /\ wb' = [wb EXCEPT !.open = FALSE]
    /\ raised' = StageError("save")
    /\ result' = WriteFailed(raised')
    /\ pc' = "done"
    /\ UNCHANGED <<sl, conn, other, query, title, verdict, df, filepath, fs, clock, calls,
                   execCount, writeCount>>

\* a second passes; the call reads the clock at line 80 only, so the seconds
\* that pass are counted where it is about to be read
Tick ==
    /\ pc = "path"
    /\ clock < MaxClock
    /\ clock' = clock + 1
    /\ UNCHANGED <<sl, conn, other, pc, query, title, verdict, df, filepath, wb, fs, result, raised,
                   calls, execCount, writeCount>>

(***************************************************************************)
(* The concurrent call, seen through its file operations                   *)
(***************************************************************************)
\* lines 79-82 in the other call
OtherBuildPath ==
    /\ other.pc = "path"
    /\ fs' = [fs EXCEPT !.dir = TRUE]
    /\ other' = [other EXCEPT !.filepath = FilePath(other.title, clock), !.pc = "open"]
    /\ UNCHANGED <<sl, conn, pc, query, title, verdict, df, filepath, wb, result, raised,
                   clock, calls, execCount, writeCount>>

\* line 108 in the other call: its own handle on the target, emptied
OtherWriterOpen ==
    /\ other.pc = "open"
    /\ fs' = [fs EXCEPT !.files = (other.filepath :> EmptyFile) @@ fs.files]
    /\ other' = [other EXCEPT !.pc = "exit"]
    /\ UNCHANGED <<sl, conn, pc, query, title, verdict, df, filepath, wb, result, raised,
                   clock, calls, execCount, writeCount>>

\* lines 109-200 and 86-91 in the other call: the workbook is built in
\* memory, saved through the handle on leaving the with block, and the call
\* returns
OtherWriterExit ==
    /\ other.pc = "exit"
    /\ fs' = [fs EXCEPT !.files =
                (other.filepath :> SavedFile(fs.files[other.filepath],
                                             SavedLen(other.filepath),
                                             WholeWb(other.df, other.title),
                                             other.df, OtherCall)) @@ fs.files]
    /\ other' = [other EXCEPT !.result = Success(other.df, other.filepath),
                              !.pc = "done"]
    /\ UNCHANGED <<sl, conn, pc, query, title, verdict, df, filepath, wb, result, raised,
                   clock, calls, execCount, writeCount>>

Next ==
    \/ \E q \in CallQueries, t \in Titles : Call(q, t)
    \/ GuardCheck
    \/ Connect
    \/ \E d \in DataFrames : ExecuteOk(d)
    \/ \E e \in ExecErrors : ExecuteRaise(e)
    \/ CheckResult
    \/ BuildPath
    \/ MkdirRaise
    \/ WriterOpen
    \/ WriterOpenRaise
    \/ ToExcel
    \/ WriteHead
    \/ \E k \in CellStops(df) : WriteCells(k)
    \/ PostLayout
    \/ StageRaise
    \/ WriterExit
    \/ WriterExitRaise
    \/ Tick

Spec == Init /\ [][Next]_vars

\* save_learning alone, next to an export tool that is not called
SpecLearn == Init /\ [][NextLearn]_vars

\* the steps of a call that has started: the call is synchronous, so each
\* statement is followed by the next one once the backend or the filesystem
\* has answered (with a value or with an error)
Advance ==
    \/ GuardCheck
    \/ Connect
    \/ \E d \in DataFrames : ExecuteOk(d)
    \/ \E e \in ExecErrors : ExecuteRaise(e)
    \/ CheckResult
    \/ BuildPath
    \/ MkdirRaise
    \/ WriterOpen
    \/ WriterOpenRaise
    \/ ToExcel
    \/ WriteHead
    \/ \E k \in CellStops(df) : WriteCells(k)
    \/ PostLayout
    \/ StageRaise
    \/ WriterExit
    \/ WriterExitRaise

\* the calls under the assumption that what they wait for answers
SpecLive == Init /\ [][Next]_vars /\ WF_vars(Advance)

(***************************************************************************)
(* The query guard alone, applied to every generated query                 *)
(***************************************************************************)
InitGuard ==
    /\ pc = "guard"
    /\ query \in Queries
    /\ title = NoTitle
    /\ verdict = NoVerdict
    /\ df = NoDf
    /\ filepath = NoPath
    /\ wb = NoWb
    /\ fs = [dir |-> FALSE, files |-> <<>>]
    /\ result = NoResult
    /\ raised = NoExc
    /\ clock = 0
    /\ calls = 1
    /\ execCount = 0
    /\ writeCount = 0
    /\ conn = "none"
    /\ sl = NoLearn
    /\ other = NoOther

NextGuard == GuardCheck

SpecGuard == InitGuard /\ [][NextGuard]_vars

(***************************************************************************)
(* _write_excel alone, on frames with named, typed columns and nulls       *)
(***************************************************************************)
InitWrite ==
    /\ pc = "open"
    /\ query = q_select_1
    /\ \/ title = NoTitle /\ df \in FormatFrames
       \/ title \in WriteTitles /\ df \in LayoutFrames
    /\ verdict = QueryGuard(q_select_1)
    /\ filepath = FilePath(title, 0)
    /\ wb = NoWb
    /\ fs = [dir |-> TRUE, files |-> <<>>]
    /\ result = NoResult
    /\ raised = NoExc
    /\ clock = 0
    /\ calls = 1
    /\ execCount = 1
    /\ writeCount = 0
    /\ conn = "released"
    /\ sl = NoLearn
    /\ other = NoOther

NextWrite ==
    \/ WriterOpen
    \/ WriterOpenRaise
    \/ ToExcel
    \/ WriteHead
    \/ \E k \in CellStops(df) : WriteCells(k)
    \/ PostLayout
    \/ StageRaise
    \/ WriterExit
    \/ WriterExitRaise

SpecWrite == InitWrite /\ [][NextWrite]_vars

(***************************************************************************)
(* The path construction alone, on titles of every shape                   *)
(***************************************************************************)
InitPath ==
    /\ pc = "path"
    /\ query = q_select_1
    /\ title \in SlugTitles
    /\ verdict = QueryGuard(q_select_1)
    /\ df = Frame(1, 1, PlainCols(1), {})
    /\ filepath = NoPath
    /\ wb = NoWb
    /\ fs = [dir |-> FALSE, files |-> <<>>]
    /\ result = NoResult
    /\ raised = NoExc
    /\ clock = 0
    /\ calls = 1
    /\ execCount = 1
    /\ writeCount = 0
    /\ conn = "released"
    /\ sl = NoLearn
    /\ other = NoOther

NextPath ==
    \/ BuildPath
    \/ MkdirRaise
    \/ Tick

SpecPath == InitPath /\ [][NextPath]_vars

(***************************************************************************)
(* Two calls side by side, from the path construction on                   *)
(***************************************************************************)
InitPair ==
    /\ pc = "path"
    /\ query = q_select_1
    /\ title \in PairTitles
    /\ verdict = QueryGuard(q_select_1)
    /\ df \in PairFrames
    /\ filepath = NoPath
    /\ wb = NoWb
    /\ fs = [dir |-> TRUE, files |-> <<>>]
    /\ result = NoResult
    /\ raised = NoExc
    /\ clock = 0
    /\ calls = 1
    /\ execCount = 1
    /\ writeCount = 0
    /\ conn = "released"
    /\ sl = NoLearn
    /\ \E t \in PairTitles, d \in PairFrames :
            other = [NoOther EXCEPT !.pc = "path", !.title = t, !.df = d]

NextPair ==
    \/ BuildPath
    \/ WriterOpen
    \/ WriterOpenRaise
    \/ ToExcel
    \/ WriteHead
    \/ \E k \in CellStops(df) : WriteCells(k)
    \/ PostLayout
    \/ StageRaise
    \/ WriterExit
    \/ WriterExitRaise
    \/ Tick
    \/ OtherBuildPath
    \/ OtherWriterOpen
    \/ OtherWriterExit

SpecPair == InitPair /\ [][NextPair]_vars

(***************************************************************************)
(* Properties                                                              *)
(***************************************************************************)
\* the statement, trimmed and lowercased, begins with select or with
BeginsWithRead(q) ==
    LET s == Lower(Strip(q))
    IN  StartsWith(s, kw_select) \/ StartsWith(s, kw_with)

\* a denylisted keyword, in any letter case, stands in q as a token delimited
\* by whitespace or by the ends of the statement
HasDeniedToken(q) ==
    LET s == Lower(q)
    IN  \E k \in 1..Len(dangerous) : \E i \in 1..Len(s) :
            LET j == i + Len(dangerous[k]) - 1
            IN  /\ j <= Len(s)
                /\ SubSeq(s, i, j) = dangerous[k]
                /\ (i = 1 \/ s[i - 1] \in Whitespace)
                /\ (j = Len(s) \/ s[j + 1] \in Whitespace)

Guarded == pc \notin {"idle", "guard"}
Checked == pc \notin {"idle", "guard", "execute", "read", "check"}

\* C1: the query is executed only in a call whose query the guard accepted;
\* a call whose query the guard rejects ends at once with InvalidQuery and
\* without any execution.
C1_ExecutionOnlyAfterGuard ==
    /\ (execCount > 0 \/ pc \in {"execute", "read", "check"}) => QueryGuard(query).ok
    /\ (Guarded /\ ~QueryGuard(query).ok) =>
           (pc = "done" /\ result.kind = "InvalidQuery" /\ execCount = 0 /\ df = NoDf)

C1_Witness ==
    /\ pc = "done" /\ query = q_drop_table
    /\ result.kind = "InvalidQuery" /\ execCount = 0

\* C2: a call that failed after choosing a file path leaves, under that path,
\* either no file or a complete artifact.
C2_NoPartialFileAfterFailure ==
    (pc = "done" /\ filepath # NoPath /\ result.kind # "Success") =>
        (~FileExists(filepath) \/ CompleteFile(fs.files[filepath]))

\* C3: a result set of 0 rows ends the call with EmptyResult and no file is
\* written.
C3_EmptyResultNoFile ==
    (Checked /\ df.nrows = 0) =>
        /\ pc = "done" /\ result.kind = "EmptyResult"
        /\ writeCount = 0 /\ filepath = NoPath /\ ~wb.open

C3_Witness ==
    pc = "done" /\ df.nrows = 0 /\ execCount = 1 /\ result.kind = "EmptyResult"

\* C4: more than 100,000 rows end the call with ResultTooLarge, no file and no
\* truncated artifact; 1..100,000 rows are never refused by the cap, and a
\* success reports and writes all of them.
C4_RowCap ==
    /\ (Checked /\ df.nrows > 100000) =>
           /\ pc = "done" /\ result.kind = "ResultTooLarge"
           /\ writeCount = 0 /\ filepath = NoPath /\ ~wb.open
    /\ (Checked /\ df.nrows >= 1 /\ df.nrows <= 100000) =>
           /\ result.kind \notin {"ResultTooLarge", "EmptyResult"}
           /\ result.kind = "Success" =>
                  (result.rows = df.nrows /\ wb.cells = df.nrows * df.ncols)

C4_Witness ==
    pc = "done" /\ df.nrows = 100001 /\ result.kind = "ResultTooLarge"

\* C5: a query that, trimmed and lowercased, does not begin with select or
\* with is rejected by the guard.
C5_RejectsNonRead ==
    (Guarded /\ ~BeginsWithRead(query)) =>
        (~verdict.ok /\ pc = "done" /\ result.kind = "InvalidQuery")

C5_Witness ==
    pc = "done" /\ query = q_pragma /\ ~verdict.ok /\ verdict.why = "not_select"

\* C6: a query holding a denylisted keyword as a whitespace-delimited token
\* (space, tab or newline, or the end of the statement) is rejected.
C6_RejectsDeniedToken ==
    (Guarded /\ HasDeniedToken(query)) =>
        (~verdict.ok /\ pc = "done" /\ result.kind = "InvalidQuery")

\* C7: a query that begins with select or with and holds no denylisted keyword
\* as a whitespace-delimited token is accepted.
C7_AcceptsCleanRead ==
    (Guarded /\ BeginsWithRead(query) /\ ~HasDeniedToken(query)) =>
        (verdict.ok /\ pc # "done")

C7_Witness ==
    pc = "execute" /\ query = q_createdate /\ verdict.ok

\* C8: a failure of directory creation, of serialization or of the file write
\* comes back as WriteFailed with the cause; none escapes the call.
C8_WriteFailuresReturned ==
    (pc = "done" /\ raised.where \in {"mkdir", "write"}) =>
        (result.kind = "WriteFailed" /\ result.msg = raised.msg)

\* C9: a failure of the execution backend comes back as ExecutionFailed with
\* the backend's message, with no directory made and no file written.
C9_ExecutionFailedSurfaced ==
    (pc = "done" /\ raised.where = "execute") =>
        /\ result.kind = "ExecutionFailed" /\ result.msg = raised.msg
        /\ writeCount = 0 /\ filepath = NoPath

\* C10: in one call the query runs at most once and the write is attempted at
\* most once, and a call in which an error arose ends with a failure result.
C10_NoRetryFailureResult ==
    /\ execCount <= 1
    /\ writeCount <= 1
    /\ (pc = "done" /\ raised.where # "none") => result.kind \in Failures
    /\ (pc = "done" /\ result.kind \in Failures) => result.path = NoPath

\* rules of the list whose pattern matches the name of column i
RulesMatching(i) ==
    {k \in 1..Len(FORMAT_RULES) : PatternSearch(FORMAT_RULES[k], df.cols[i].name)}

\* C11: a column whose name matches a format rule gets the format of a rule
\* it matches, whatever its dtype; total_price gets the currency format and
\* order_count the thousands-separated integer format.
C11_NameRulesBeforeDtype ==
    \A i \in 1..Len(wb.fmts) :
        /\ RulesMatching(i) # {} =>
               wb.fmts[i] \in {FORMAT_RULES[k].fmt : k \in RulesMatching(i)}
        /\ df.cols[i].name = n_total_price => wb.fmts[i] = "$#,##0.00"
        /\ df.cols[i].name = n_order_count => wb.fmts[i] = "#,##0"

C11_Witness ==
    /\ pc = "done" /\ result.kind = "Success"
    /\ df.cols = <<Col(<<"t","o","t","a","l","_","p","r","i","c","e">>, dt_object)>>
    /\ wb.fmts = <<FMT_CURRENCY>>

\* C12: a column whose name matches no format rule gets its format from the
\* dtype alone: float -> "#,##0.00", integer -> "#,##0", others -> none.
C12_DtypeFallback ==
    \A i \in 1..Len(wb.fmts) :
        RulesMatching(i) = {} =>
            wb.fmts[i] = CASE df.cols[i].dtype = dt_float64 -> "#,##0.00"
                           [] df.cols[i].dtype = dt_int64 -> "#,##0"
                           [] OTHER -> NoFormat

C12_Witness ==
    /\ pc = "done" /\ result.kind = "Success"
    /\ df.cols = <<Col(<<"o","r","d","e","r","_","n","u","m">>, dt_int64)>>
    /\ wb.fmts = <<FMT_INTEGER>>

\* C13: the rules are tried in the order currency, percentage, integer, date
\* and the earliest rule that matches gives the one format of the column.
C13_FirstMatchWins ==
    /\ <<FORMAT_RULES[1].fmt, FORMAT_RULES[2].fmt, FORMAT_RULES[3].fmt, FORMAT_RULES[4].fmt>>
           = <<"$#,##0.00", "0.00%", "#,##0", "YYYY-MM-DD">>
    /\ \A i \in 1..Len(wb.fmts) : \A k \in RulesMatching(i) :
           (\A j \in RulesMatching(i) : k <= j) => wb.fmts[i] = FORMAT_RULES[k].fmt

C13_Witness ==
    /\ pc = "done" /\ result.kind = "Success"
    /\ df.cols[1].name = <<"r","a","t","e","_","d","a","t","e">>
    /\ wb.fmts = <<FMT_PERCENT>>

\* the title counts as present when it is a non-empty string
TitlePresent == title.some /\ title.val # <<>>

\* rows of the sheet that can hold something
SheetRows == 0..(3 + SmallRows)

\* C14: with a title the title is in row 0, the subtitle in row 1, the header
\* in row 2 and the data from row 3; without one the header is in row 0 and
\* the data from row 1.
C14_LayoutGeometry ==
    (pc \in {"post", "exit", "done"} /\ wb.cells = TotalCells(df) /\ df.nrows <= SmallRows) =>
        LET hdr == {rr \in SheetRows : SheetCell(wb, df, title, rr, 0).style = "header"}
            dat == {rr \in SheetRows :
                        SheetCell(wb, df, title, rr, 0).style \in {"plain", "stripe"}}
        IN  /\ TitlePresent =>
                /\ SheetCell(wb, df, title, 0, 0) = Cell(Text(title.val), "title", NoFormat)
                /\ SheetCell(wb, df, title, 1, 0).style = "subtitle"
                /\ hdr = {2}
                /\ dat = 3..(2 + df.nrows)
            /\ ~TitlePresent =>
                /\ hdr = {0}
                /\ dat = 1..df.nrows

C14_Witness ==
    /\ pc = "done" /\ result.kind = "Success" /\ TitlePresent
    /\ SheetCell(wb, df, title, 2, 0).style = "header"
    /\ SheetCell(wb, df, title, 3, 0).style = "plain"

\* C15: the data cell of row offset r has the plain style when r is even and
\* the banded style when r is odd, in every column and whatever it holds,
\* a null included.
C15_BandingByOffset ==
    df.nrows <= SmallRows =>
        \A r \in 0..(df.nrows - 1) : \A c \in 0..(df.ncols - 1) :
            c * df.nrows + r < wb.cells =>
                SheetCell(wb, df, title, (IF TitlePresent THEN 3 ELSE 1) + r, c).style
                    = IF r % 2 = 0 THEN "plain" ELSE "stripe"

C15_Witness ==
    /\ pc = "done" /\ result.kind = "Success" /\ df.nrows = 2 /\ df.ncols = 2
    /\ df.nulls = {<<0, 1>>, <<1, 1>>}
    /\ SheetCell(wb, df, title, 1, 1) = Cell(EmptyVal, "plain", NoFormat)
    /\ SheetCell(wb, df, title, 2, 1) = Cell(EmptyVal, "stripe", NoFormat)

\* the characters a slug may hold
SlugChars == {"a","b","c","d","e","f","g","h","i","j","k","l","m","n","o","p","q","r",
              "s","t","u","v","w","x","y","z","0","1","2","3","4","5","6","7","8","9","_"}

\* the letters and digits of a string, in order
AlnumOf(s) == SelectSeq(s, IsAlnum)

IsPrefix(a, b) == Len(a) <= Len(b) /\ SubSeq(b, 1, Len(a)) = a

\* the text the slug is made from
TitleText == IF TitlePresent THEN title.val ELSE s_export

\* the slug of the chosen path
ChosenSlug == filepath[1]

\* a slug of at most 60 characters of [a-z0-9_], no two underscores in a row,
\* whose letters and digits are those of the lowercased title, in order, and
\* which does not begin with an underscore
SlugShape(s) ==
    /\ Len(s) <= 60
    /\ \A i \in 1..Len(s) : s[i] \in SlugChars
    /\ \A i \in 1..(Len(s) - 1) : ~(s[i] = "_" /\ s[i + 1] = "_")
    /\ IsPrefix(AlnumOf(s), AlnumOf(Lower(TitleText)))
    /\ (Len(s) < 60 => AlnumOf(s) = AlnumOf(Lower(TitleText)))
    /\ (s # <<>> => s[1] # "_")
    /\ (title = t_q1_report =>
            s = <<"q","1","_","r","e","v","e","n","u","e","_","r","e","p","o","r","t">>)

\* C16 (as claimed): the slug is the lowercased title with the runs of other
\* characters collapsed to one underscore, trimmed and cut at 60; it has at
\* most 60 characters of [a-z0-9_] and neither begins nor ends with an
\* underscore.
C16_SlugNeverEndsWithUnderscore ==
    filepath # NoPath =>
        /\ SlugShape(ChosenSlug)
        /\ (ChosenSlug # <<>> => ChosenSlug[Len(ChosenSlug)] # "_")

\* C16 (amended): the same, except that the slug ends with an underscore
\* when (and only when) the cut at 60 characters fell right after one.
C16_SlugShapeAfterCut ==
    filepath # NoPath =>
        /\ SlugShape(ChosenSlug)
        /\ (ChosenSlug # <<>> /\ ChosenSlug[Len(ChosenSlug)] = "_") =>
                (Len(ChosenSlug) = 60 /\ Len(TitleText) > 60)

C16_Witness ==
    /\ pc = "open"
    /\ title = SomeTitle(LongRun \o <<" ", "a">>)
    /\ ChosenSlug = LongRun \o <<"_">>

\* C17: two calls choose the same path only if they have the same title and
\* read the same clock second.
C17_SamePathSameTitle ==
    (filepath # NoPath /\ other.filepath # NoPath /\ filepath = other.filepath) =>
        (title = other.title /\ filepath[2] = other.filepath[2])

\* C18: after two concurrent calls that chose the same path have both
\* returned success, the file there is the whole artifact of the call that
\* saved last, never a mixture and never missing.
C18_LastWriterWins ==
    (/\ pc = "done" /\ result.kind = "Success"
     /\ other.pc = "done" /\ other.result.kind = "Success"
     /\ filepath = other.filepath) =>
        /\ FileExists(filepath)
        /\ CompleteFile(fs.files[filepath])
        /\ fs.files[filepath].by \in {calls, OtherCall}

\* C19: a success result is returned only after the write completed without
\* an error, and it carries the path of the written file and the row and
\* column counts of the executed result set.
C19_SuccessReportsWrite ==
    result.kind = "Success" =>
        /\ pc = "done"
        /\ raised = NoExc
        /\ writeCount = 1 /\ execCount = 1
        /\ CompleteWb(wb, df) /\ ~wb.open
        /\ result.path = filepath
        /\ FileExists(filepath)
        /\ fs.files[filepath].saved /\ fs.files[filepath].complete
        /\ fs.files[filepath].by = calls
        /\ result.rows = df.nrows
        /\ result.cols = df.ncols

C19_Witness ==
    /\ pc = "done" /\ result.kind = "Success"
    /\ df.nrows = 2 /\ df.ncols = 1
    /\ result.rows = 2 /\ result.cols = 1
    /\ result.path = filepath /\ FileExists(filepath)

\* C20: the auto-filter runs from the header row to the last data row over
\* all the columns, and the panes are frozen at the first data row.
C20_FilterAndFreeze ==
    wb.post =>
        LET hr == IF TitlePresent THEN 2 ELSE 0
        IN  /\ wb.filter = <<hr, 0, (hr + 1) + df.nrows - 1, df.ncols - 1>>
            /\ wb.freeze = <<hr + 1, 0>>

C20_Witness ==
    /\ pc = "done" /\ result.kind = "Success" /\ TitlePresent
    /\ df.nrows = 2 /\ df.ncols = 2
    /\ wb.filter = <<2, 0, 4, 1>> /\ wb.freeze = <<3, 0>>

\* C21: a null of the result set is written as the empty string, never as a
\* text such as "nan", and its cell has the style of its row offset (plain
\* or banded) with the format of its column.
C21_NullsAreEmptyStyledCells ==
    df.nrows <= SmallRows =>
        \A r \in 0..(df.nrows - 1) : \A c \in 0..(df.ncols - 1) :
            (<<r, c>> \in df.nulls /\ wb.raw) =>
                LET cell == SheetCell(wb, df, title, (IF TitlePresent THEN 3 ELSE 1) + r, c)
                IN  /\ cell.value = EmptyVal
                    /\ c * df.nrows + r < wb.cells =>
                        /\ cell.style = (IF r % 2 = 0 THEN "plain" ELSE "stripe")
                        /\ cell.fmt = DetectFormat(df.cols[c + 1].name, df.cols[c + 1].dtype)

C21_Witness ==
    /\ pc = "done" /\ result.kind = "Success" /\ ~TitlePresent
    /\ df.nrows = 2 /\ df.cols[1].name = n_total_price
    /\ df.nulls = {<<0, 0>>, <<1, 0>>}
    /\ SheetCell(wb, df, title, 1, 0) = Cell(EmptyVal, "plain", FMT_CURRENCY)
    /\ SheetCell(wb, df, title, 2, 0) = Cell(EmptyVal, "stripe", FMT_CURRENCY)

\* the terminal outcomes of the contract
Outcomes == {"Success", "InvalidQuery", "ExecutionFailed", "EmptyResult",
             "ResultTooLarge", "WriteFailed"}

\* C22: when the backend and the filesystem answer, a call that has started
\* ends, with one of the six outcomes of the contract as its result.
C22_EndsInOneOutcome ==
    (pc = "guard") ~> (pc = "done" /\ result.kind \in Outcomes)

\* C23: the database connection and the workbook writer are held only inside
\* the statements that use them; no call has returned, with a result or with
\* an error, while still holding one.
C23_ResourcesReleased ==
    /\ conn = "open" => pc = "read"
    /\ wb.open => pc \in WriteStages \cup {"exit"}
    /\ pc \in {"idle", "done"} => (conn # "open" /\ ~wb.open)

C23_Witness ==
    /\ pc = "done" /\ result.kind = "WriteFailed"
    /\ raised = StageError("cells")
    /\ conn = "released" /\ ~wb.open

SheetCols == 0..MaxCols

\* C25: in a written grid the value of row r, column c of the result set is
\* at (data start + r, c) and header c at (header row, c); the header and
\* data cells are exactly those, each with its one final styled value, and
\* none of them is on the title or the subtitle row.
C25_GridPlacement ==
    (pc = "done" /\ result.kind = "Success" /\ df.nrows <= SmallRows) =>
        LET hr == IF TitlePresent THEN 2 ELSE 0
            at(rr, cc) == SheetCell(wb, df, title, rr, cc)
        IN  /\ \A c \in 0..(df.ncols - 1) :
                    at(hr, c) = Cell(Text(df.cols[c + 1].name), "header", NoFormat)
            /\ \A r \in 0..(df.nrows - 1) : \A c \in 0..(df.ncols - 1) :
                    /\ at(hr + 1 + r, c).value =
                            (IF <<r, c>> \in df.nulls THEN EmptyVal ELSE Val(r, c))
                    /\ at(hr + 1 + r, c).style \in {"plain", "stripe"}
            /\ \A rr \in SheetRows : \A cc \in SheetCols :
                    /\ at(rr, cc).style = "header" <=> (rr = hr /\ cc < df.ncols)
                    /\ at(rr, cc).style \in {"plain", "stripe"} <=>
                            (rr > hr /\ rr <= hr + df.nrows /\ cc < df.ncols)
                    /\ at(rr, cc).style # "raw"
                    /\ (TitlePresent /\ rr < 2) =>
                            at(rr, cc).style \in {"title", "subtitle", "none"}

C25_Witness ==
    /\ pc = "done" /\ result.kind = "Success" /\ TitlePresent
    /\ df.nrows = 2 /\ df.ncols = 2 /\ df.nulls = {}
    /\ SheetCell(wb, df, title, 2, 1) = Cell(Text(n_name), "header", NoFormat)
    /\ SheetCell(wb, df, title, 3, 1) = Cell(Val(0, 1), "plain", NoFormat)
    /\ SheetCell(wb, df, title, 4, 0) = Cell(Val(1, 0), "stripe", FMT_CURRENCY)

\* the stages before the path construction, and the outcomes they end in
EarlyStages == {"guard", "execute", "read", "check"}
EarlyOutcomes == {"InvalidQuery", "ExecutionFailed", "EmptyResult", "ResultTooLarge"}

\* C26: a call that ends in InvalidQuery, ExecutionFailed, EmptyResult or
\* ResultTooLarge ends from a stage before the path construction, and no
\* step of those stages changes the filesystem, makes the directory or
\* computes a path.
C26_EarlyOutcomesLeaveFsAlone ==
    [][ /\ pc \in EarlyStages =>
            (fs' = fs /\ filepath' = NoPath /\ writeCount' = 0 /\ ~wb'.open)
        /\ (pc # "done" /\ pc' = "done" /\ result'.kind \in EarlyOutcomes) =>
            /\ pc \in EarlyStages
            /\ calls = 1 => fs' = [dir |-> FALSE, files |-> <<>>]
      ]_vars

C26_Witness ==
    /\ pc = "done" /\ result.kind = "EmptyResult" /\ calls = 2
    /\ fs.dir /\ DOMAIN fs.files # {} /\ filepath = NoPath

\* C27: whatever the title, the base name of the file is not empty: it is
\* the slug of the title, or "export" when there is no title.
C27_BaseNameNonEmpty ==
    filepath # NoPath =>
        /\ ChosenSlug # <<>>
        /\ ~TitlePresent => ChosenSlug = s_export

\* the returned search holds a document whose name contains the name
HoldsName(name, results) ==
    \E i \in 1..Len(results) :
        /\ results[i].some
        /\ \E k \in 0..(Len(results[i].name) - Len(name)) :
               SubSeq(results[i].name, k + 1, k + Len(name)) = name

LearnErrors == {"TitleRequired", "LearningRequired", "Failed"}

\* C28: save_learning answers "Learning saved and verified" only if, in one
\* attempt, the insert returned and the search after it returned a document
\* whose name contains the normalised name; every other finished call
\* answers an error or the could-not-be-verified warning.
C28_VerifiedOnlyWhenFound ==
    sl.pc = "done" =>
        /\ sl.result \in {"Verified", "Unverified"} \cup LearnErrors
        /\ sl.result = "Verified" =>
               /\ sl.inserted
               /\ sl.searched
               /\ HoldsName(LearningName(sl.title), sl.results)

\* verified in the second attempt, by a document whose name is longer
C28_Witness ==
    /\ sl.pc = "done"
    /\ sl.result = "Verified"
    /\ sl.attempt = 1
    /\ \A i \in 1..Len(sl.results) : sl.results[i].name # sl.name

\* C29: one call makes at most two inserts and two searches, a search only
\* after the insert of the same attempt returned, and a blank title or
\* learning gives an error with no insert and no search.
C29_BoundedInsertsAndSearches ==
    /\ sl.inserts <= 2
    /\ sl.searches <= 2
    /\ sl.searches <= sl.insertsOk
    /\ sl.pc = "search" => sl.inserted
    /\ sl.searched => sl.inserted
    /\ (sl.pc \notin {"idle", "validate"} /\ (IsBlank(sl.title) \/ IsBlank(sl.learning))) =>
           /\ sl.pc = "done"
           /\ sl.result \in {"TitleRequired", "LearningRequired"}
           /\ sl.inserts = 0
           /\ sl.searches = 0

\* the second call of a run made two inserts and two searches
C29_Witness ==
    /\ sl.pc = "done"
    /\ sl.inserts = 2
    /\ sl.searches = 2
    /\ sl.calls = 2

\* C30: "Failed to save learning after 2 attempts" is answered only when no
\* insert of the call returned; a call in which an insert returned and
\* nothing was verified answers the could-not-be-verified warning.
C30_FailedOnlyWithoutInsert ==
    sl.pc = "done" =>
        /\ sl.result = "Failed" => sl.insertsOk = 0
        /\ (sl.insertsOk > 0 /\ sl.result # "Verified") => sl.result = "Unverified"
====
